---- MODULE Spec2Model ----
(***************************************************************************)
(* Model of BskyAINewsBot (src/main.py): the three worker threads started  *)
(* by start(), the monitor loop, the signal handler and the finally block, *)
(* the notification-poll cycle and create_post.                            *)
(*                                                                         *)
(* A worker's pc names the statement it is executing.  A pc that names an  *)
(* external call ("fetch_news", "get_notifs", "thread", "gen", "create")   *)
(* means the call is in flight: the step INTO that pc initiates the call,  *)
(* the step OUT of it is the call returning (or raising).                  *)
(*                                                                         *)
(* crashes, restarts, cleanups, signals, replied, refs and lastPost are    *)
(* history variables: they record events of the code (a thread ending, a   *)
(* "died, restarting" branch, a createRecord request) and are never read   *)
(* by the modelled code.                                                   *)
(***************************************************************************)
EXTENDS Integers, Sequences, FiniteSets, TLC

\* ---- bounds of the model ------------------------------------------------
MaxTime == 1        \* the clock runs 0..MaxTime
MaxCrashes == 1     \* worker threads ended by an uncaught BaseException
MaxSignals == 2     \* SIGINT/SIGTERM deliveries
MaxReplies == 2     \* reply posts recorded per comment
MaxOver == 2        \* characters by which an input text exceeds a limit

\* ---- data ---------------------------------------------------------------
Roles == {"post", "periodic", "notification"}

\* Thread objects: the first of each role and its replacements.
MaxThreads == Cardinality(Roles) * (1 + MaxCrashes)
Tids == 1..MaxThreads

\* The account of the bot (self.did) and another account.
MyDid == "did:me"
OtherDid == "did:other"

\* A post the bot created earlier (uri R); comments c1, c2, cbad on it.
\* cself is a reply the bot's own account wrote, clike a like of R, and
\* cmention a post outside any thread that mentions the bot.
RootUri == "R"
NoReply == "none"

\* The notifications the service can index.  reply_root / reply_parent are
\* the record.reply fields of the comment; badTime marks an indexedAt the
\* client cannot parse (absent or not ISO-8601).
Notifs ==
  [ c1   |-> [uri |-> "c1", author |-> OtherDid, reason |-> "reply",
              reply_root |-> RootUri, reply_parent |-> RootUri, badTime |-> FALSE],
    c2   |-> [uri |-> "c2", author |-> OtherDid, reason |-> "reply",
              reply_root |-> RootUri, reply_parent |-> "b1", badTime |-> FALSE],
    cbad |-> [uri |-> "cbad", author |-> OtherDid, reason |-> "reply",
              reply_root |-> RootUri, reply_parent |-> RootUri, badTime |-> TRUE],
    cself |-> [uri |-> "cself", author |-> MyDid, reason |-> "reply",
              reply_root |-> RootUri, reply_parent |-> "c1", badTime |-> FALSE],
    clike |-> [uri |-> "clike", author |-> OtherDid, reason |-> "like",
              reply_root |-> NoReply, reply_parent |-> NoReply, badTime |-> FALSE],
    cmention |-> [uri |-> "cmention", author |-> OtherDid, reason |-> "mention",
              reply_root |-> NoReply, reply_parent |-> NoReply, badTime |-> FALSE] ]

NotifIds == DOMAIN Notifs
ThreadComments == {"c1", "c2", "cbad"}
FilterCases == {"cself", "clike", "cmention"}

\* The content id the service binds to a post uri.
Cid(uri) == [u |-> uri, tag |-> "cid"]

NotIndexed == -1

VARIABLES
  running,                    \* self.running
  access_token,               \* self.access_token: "none" or "jwt"
  session,                    \* the service's view of that token: "none", "valid", "expired"
  last_checked_notification,  \* self.last_checked_notification
  now,                        \* datetime.now(UTC)
  indexedAt,                  \* service: index time of each notification, or NotIndexed
  thr,                        \* Thread objects created so far: role, pc, loop locals
  nthr,                       \* number of Thread objects created
  cur,                        \* post_thread / periodic_thread / notification_thread
  mainPc,                     \* position of the main thread in start()
  hpc,                        \* position of the innermost running signal_handler frame
  exitCode,                   \* process exit status, -1 while running
  signals,                    \* history: signals delivered
  cleanups,                   \* history: cleanup sequences begun (handler or finally)
  crashes,                    \* history: threads ended by an uncaught exception, per role
  restarts,                   \* history: "died, restarting" branches taken, per role
  replied,                    \* history: reply posts the service created, per comment
  refs,                       \* history: reply references sent in createRecord requests
  lastPost,                   \* history: the last create_post call: did its request fail on an
                              \* expired token, and how often did it call authenticate
  call,                       \* a call of generate_post / generate_reply: its inputs
  result                      \* what that call returned, NoResult before it returns

vars == << running, access_token, session, last_checked_notification, now,
           indexedAt, thr, nthr, cur, mainPc, hpc, exitCode, signals,
           cleanups, crashes, restarts, replied, refs, lastPost, call, result >>

envVars == << now, indexedAt >>
mainVars == << mainPc, hpc, exitCode, signals, cleanups >>
histVars == << replied, refs, lastPost >>
textVars == << call, result >>

NoCall == [fn |-> "none"]
NoResult == [raised |-> FALSE, text |-> << >>, returned |-> FALSE]


\* ---- __init__: the state after construction ------------------------------
NoThread == [role |-> "none", pc |-> "none", list |-> << >>, i |-> 0]

\* The bot and its environment.
InitBot ==
  /\ running = TRUE
  /\ access_token = "none"
  /\ session = "none"
  /\ now = 0
  /\ last_checked_notification = 0
  /\ indexedAt = [n \in NotifIds |-> NotIndexed]
  /\ thr = [t \in Tids |-> NoThread]
  /\ nthr = 0
  /\ cur = [r \in Roles |-> 0]
  /\ mainPc = "auth"
  /\ hpc = "none"
  /\ exitCode = -1
  /\ signals = 0
  /\ cleanups = 0
  /\ crashes = [r \in Roles |-> 0]
  /\ restarts = [r \in Roles |-> 0]
  /\ replied = [n \in NotifIds |-> 0]
  /\ refs = {}
  /\ lastPost = [expired |-> FALSE, reauth |-> 0]

Init ==
  /\ InitBot
  /\ call = NoCall
  /\ result = NoResult

\* ---- pure functions -----------------------------------------------------

\* The order of listNotifications: newest first; comments indexed in the
\* same instant come in the order of their ids below.
Rank == [c1 |-> 1, c2 |-> 2, cbad |-> 3, cself |-> 4, clike |-> 5, cmention |-> 6]

Newer(a, b) ==
  \/ indexedAt[a] > indexedAt[b]
  \/ indexedAt[a] = indexedAt[b] /\ Rank[a] < Rank[b]

RECURSIVE NewestFirst(_)
NewestFirst(S) ==
  IF S = {} THEN << >>
  ELSE LET top == CHOOSE a \in S : \A b \in S \ {a} : Newer(a, b)
       IN  << top >> \o NewestFirst(S \ {top})

\* The notifications listNotifications returns (limit 20 exceeds NotifIds).
ServiceList == NewestFirst({n \in NotifIds : indexedAt[n] # NotIndexed})

\* should_reply_to_notification without its author test.
should_reply_to_notification_AnyAuthor(n) ==
  IF Notifs[n].reason \notin {"reply", "mention"} THEN "no"
  ELSE IF Notifs[n].badTime THEN "raise"
  ELSE IF indexedAt[n] <= last_checked_notification THEN "no"
  ELSE "yes"

\* should_reply_to_notification without its reason test.
should_reply_to_notification_AnyReason(n) ==
  IF Notifs[n].author = MyDid THEN "no"
  ELSE IF Notifs[n].badTime THEN "raise"
  ELSE IF indexedAt[n] <= last_checked_notification THEN "no"
  ELSE "yes"

\* should_reply_to_notification rejecting only what is older than the
\* checkpoint.
should_reply_to_notification_NotOlder(n) ==
  IF Notifs[n].author = MyDid THEN "no"
  ELSE IF Notifs[n].reason \notin {"reply", "mention"} THEN "no"
  ELSE IF Notifs[n].badTime THEN "raise"
  ELSE IF indexedAt[n] < last_checked_notification THEN "no"
  ELSE "yes"

\* should_reply_to_notification: "yes", "no", or "raise" when
\* datetime.fromisoformat / .replace fails on the indexedAt field.
should_reply_to_notification(n) ==
  IF Notifs[n].author = MyDid THEN "no"
  ELSE IF Notifs[n].reason \notin {"reply", "mention"} THEN "no"
  ELSE IF Notifs[n].badTime THEN "raise"
  ELSE IF indexedAt[n] <= last_checked_notification THEN "no"
  ELSE "yes"

\* A create_post that takes the root from the comment's own reply field.
ReplyRef_RecordRoot(n) ==
  [ root   |-> [uri |-> Notifs[n].reply_root, cid |-> Cid(Notifs[n].reply_root)],
    parent |-> [uri |-> Notifs[n].uri, cid |-> Cid(Notifs[n].uri)] ]

\* The reply reference create_post builds from reply_to (the notification).
ReplyRef(n) ==
  [ root   |-> [uri |-> Notifs[n].uri, cid |-> Cid(Notifs[n].uri)],
    parent |-> [uri |-> Notifs[n].uri, cid |-> Cid(Notifs[n].uri)] ]

\* ---- worker threads -----------------------------------------------------
CallPcs == {"fetch_news", "get_notifs", "thread", "gen", "create"}

\* Thread.is_alive()
is_alive(t) == thr[t].pc \notin {"none", "dead"}

\* Daemon threads run only while the process does.
ProcessUp == mainPc # "exited"

\* Every thread but t is untouched.
SetThr(t, rec) == thr' = [thr EXCEPT ![t] = rec]

FirstCall(r) ==
  CASE r = "post" -> "fetch_news"
    [] r = "periodic" -> "gen"
    [] r = "notification" -> "get_notifs"

\* `while self.running:` of run_post_worker / run_periodic_posting /
\* run_notification_worker; entering the body starts the work function.
Loop(t) ==
  /\ ProcessUp
  /\ thr[t].pc = "loop"
  /\ SetThr(t, [thr[t] EXCEPT !.pc = IF running THEN FirstCall(thr[t].role) ELSE "dead"])
  /\ UNCHANGED << textVars, running, access_token, session, last_checked_notification,
                  envVars, nthr, cur, mainVars, crashes, restarts, histVars >>

\* fetch_ai_news returns: no article (or a caught error) ends
\* post_news_update, an article goes on to generate_post.
FetchNews(t) ==
  /\ ProcessUp
  /\ thr[t].pc = "fetch_news"
  /\ \E articles \in BOOLEAN :
       SetThr(t, [thr[t] EXCEPT !.pc = IF articles THEN "gen" ELSE "sleep"])
  /\ UNCHANGED << textVars, running, access_token, session, last_checked_notification,
                  envVars, nthr, cur, mainVars, crashes, restarts, histVars >>

\* get_notifications returns the list, or [] on any error (an expired
\* token included); the for loop starts at its first element.
GetNotifications(t) ==
  /\ ProcessUp
  /\ thr[t].pc = "get_notifs"
  /\ \E ok \in BOOLEAN :
       SetThr(t, [thr[t] EXCEPT !.pc = "next", !.i = 1,
                    !.list = IF ok /\ session = "valid" THEN ServiceList ELSE << >>])
  /\ UNCHANGED << textVars, running, access_token, session, last_checked_notification,
                  envVars, nthr, cur, mainVars, crashes, restarts, histVars >>

\* A handle_notifications that moves the checkpoint in its except branch
\* as well.
NextNotification_CheckpointOnAbort(t) ==
  /\ ProcessUp
  /\ thr[t].pc = "next"
  /\ IF thr[t].i > Len(thr[t].list)
     THEN /\ last_checked_notification' = now
          /\ SetThr(t, [thr[t] EXCEPT !.pc = "sleep", !.list = << >>, !.i = 0])
     ELSE LET d == should_reply_to_notification(thr[t].list[thr[t].i])
          IN  /\ last_checked_notification' =
                   IF d = "raise" THEN now ELSE last_checked_notification
              /\ SetThr(t, CASE d = "yes" -> [thr[t] EXCEPT !.pc = "thread"]
                             [] d = "no" -> [thr[t] EXCEPT !.i = @ + 1]
                             [] d = "raise" -> [thr[t] EXCEPT !.pc = "sleep", !.list = << >>,
                                                                  !.i = 0])
  /\ UNCHANGED << textVars, running, access_token, session, envVars, nthr, cur,
                  mainVars, crashes, restarts, histVars >>

\* One turn of `for notification in notifications`, or the statement after
\* the loop.  An exception of should_reply_to_notification is caught by
\* handle_notifications, which returns without moving the checkpoint.
NextNotification(t) ==
  /\ ProcessUp
  /\ thr[t].pc = "next"
  /\ IF thr[t].i > Len(thr[t].list)
     THEN /\ last_checked_notification' = now
          /\ SetThr(t, [thr[t] EXCEPT !.pc = "sleep", !.list = << >>, !.i = 0])
     ELSE LET d == should_reply_to_notification(thr[t].list[thr[t].i])
          IN  /\ UNCHANGED last_checked_notification
              /\ SetThr(t, CASE d = "yes" -> [thr[t] EXCEPT !.pc = "thread"]
                             [] d = "no" -> [thr[t] EXCEPT !.i = @ + 1]
                             [] d = "raise" -> [thr[t] EXCEPT !.pc = "sleep", !.list = << >>,
                                                                  !.i = 0])
  /\ UNCHANGED << textVars, running, access_token, session, envVars, nthr, cur,
                  mainVars, crashes, restarts, histVars >>

\* get_post_thread returns: no thread (error) makes generate_reply return
\* "" and the comment is skipped.
GetPostThread(t) ==
  /\ ProcessUp
  /\ thr[t].pc = "thread"
  /\ \E ok \in BOOLEAN :
       SetThr(t, IF ok /\ session = "valid"
                 THEN [thr[t] EXCEPT !.pc = "gen"]
                 ELSE [thr[t] EXCEPT !.pc = "next", !.i = @ + 1])
  /\ UNCHANGED << textVars, running, access_token, session, last_checked_notification,
                  envVars, nthr, cur, mainVars, crashes, restarts, histVars >>

\* model.generate_content returns or raises; generate_post and
\* generate_reply turn an error into their fallback text, so create_post is
\* called either way.
GenerateContent(t) ==
  /\ ProcessUp
  /\ thr[t].pc = "gen"
  /\ \E ok \in BOOLEAN : SetThr(t, [thr[t] EXCEPT !.pc = "create"])
  /\ UNCHANGED << textVars, running, access_token, session, last_checked_notification,
                  envVars, nthr, cur, mainVars, crashes, restarts, histVars >>


\* create_post: authenticate first when no token is stored, then the
\* createRecord request; every error is logged and swallowed.  With a token
\* the service no longer accepts the request fails, and create_post neither
\* clears the token nor calls authenticate.
CreatePost(t) ==
  /\ ProcessUp
  /\ thr[t].pc = "create"
  /\ thr[t].role = "notification" => replied[thr[t].list[thr[t].i]] < MaxReplies
  /\ \E authOk \in BOOLEAN, ok \in BOOLEAN :
       LET needAuth == access_token = "none"
           gotAuth == needAuth /\ authOk
           sess == IF gotAuth THEN "valid" ELSE session
           requested == ~needAuth \/ authOk
           res == IF ~requested THEN "autherror"
                  ELSE IF sess # "valid" THEN "expired"
                  ELSE IF ok THEN "ok" ELSE "error"
       IN  /\ access_token' = IF gotAuth THEN "jwt" ELSE access_token
           /\ session' = sess
           /\ lastPost' = [expired |-> res = "expired", reauth |-> IF needAuth THEN 1 ELSE 0]
           /\ IF thr[t].role = "notification" /\ requested
              THEN LET n == thr[t].list[thr[t].i]
                   IN  /\ replied' = [replied EXCEPT ![n] = IF res = "ok" THEN @ + 1 ELSE @]
                       /\ refs' = refs \cup {[to |-> n, ref |-> ReplyRef(n)]}
              ELSE UNCHANGED << replied, refs >>
  /\ SetThr(t, [thr[t] EXCEPT !.pc = IF thr[t].role = "periodic" THEN "sleep" ELSE "rate"])
  /\ UNCHANGED << textVars, running, last_checked_notification, envVars, nthr, cur,
                  mainVars, crashes, restarts >>

\* time.sleep(2) after create_post in post_news_update and in the for loop
\* of handle_notifications.
RateLimit(t) ==
  /\ ProcessUp
  /\ thr[t].pc = "rate"
  /\ SetThr(t, IF thr[t].role = "notification"
               THEN [thr[t] EXCEPT !.pc = "next", !.i = @ + 1]
               ELSE [thr[t] EXCEPT !.pc = "sleep"])
  /\ UNCHANGED << textVars, running, access_token, session, last_checked_notification,
                  envVars, nthr, cur, mainVars, crashes, restarts, histVars >>

\* time.sleep(1800) / time.sleep(60) at the end of a worker iteration.
Sleep(t) ==
  /\ ProcessUp
  /\ thr[t].pc = "sleep"
  /\ SetThr(t, [thr[t] EXCEPT !.pc = "loop"])
  /\ UNCHANGED << textVars, running, access_token, session, last_checked_notification,
                  envVars, nthr, cur, mainVars, crashes, restarts, histVars >>

TotalCrashes == crashes["post"] + crashes["periodic"] + crashes["notification"]

\* What `except Exception` (in the work functions and in the worker loops)
\* does with a raised exception: a BaseException that is not an Exception
\* (SystemExit, KeyboardInterrupt, GeneratorExit) passes through.
Caught(kind) == kind = "Exception"

\* An external call raises an exception no handler of the thread catches:
\* the thread's run function ends.
Crash(t) ==
  /\ ProcessUp
  /\ thr[t].pc \in CallPcs
  /\ TotalCrashes < MaxCrashes
  /\ \E kind \in {"Exception", "BaseException"} :
       /\ ~Caught(kind)
       /\ SetThr(t, [thr[t] EXCEPT !.pc = "dead"])
       /\ crashes' = [crashes EXCEPT ![thr[t].role] = @ + 1]
  /\ UNCHANGED << textVars, running, access_token, session, last_checked_notification,
                  envVars, nthr, cur, mainVars, restarts, histVars >>

\* ---- main thread: start() -----------------------------------------------
NewThread(r) == [role |-> r, pc |-> "loop", list |-> << >>, i |-> 0]

MonPcs == {"mon_sleep", "mon_post", "mon_periodic", "mon_notification"}
FinPcs == {"fin_post", "fin_periodic", "fin_notification"}

\* A start() that logs the failure of authenticate() and goes on.
Authenticate_ContinueOnFailure ==
  /\ mainPc = "auth"
  /\ \E ok \in BOOLEAN :
       /\ access_token' = IF ok THEN "jwt" ELSE access_token
       /\ session' = IF ok THEN "valid" ELSE session
       /\ mainPc' = "spawn"
       /\ UNCHANGED << running, exitCode, cleanups >>
  /\ UNCHANGED << textVars, last_checked_notification, envVars, thr, nthr, cur, hpc,
                  signals, crashes, restarts, histVars >>

\* self.authenticate() at the top of start().  A failure is caught by
\* `except Exception`: running = False, sys.exit(1), and the finally block
\* runs with no thread created.
Authenticate ==
  /\ mainPc = "auth"
  /\ \E ok \in BOOLEAN :
       IF ok
       THEN /\ access_token' = "jwt"
            /\ session' = "valid"
            /\ mainPc' = "spawn"
            /\ UNCHANGED << running, exitCode, cleanups >>
       ELSE /\ running' = FALSE
            /\ mainPc' = "exited"
            /\ exitCode' = 1
            /\ cleanups' = cleanups + 1
            /\ UNCHANGED << access_token, session >>
  /\ UNCHANGED << textVars, last_checked_notification, envVars, thr, nthr, cur, hpc,
                  signals, crashes, restarts, histVars >>

\* The three Thread objects are created and started, then the signal
\* handlers are installed and the monitor loop begins with time.sleep(30).
StartWorkers ==
  /\ mainPc = "spawn"
  /\ thr' = [t \in Tids |-> CASE t = 1 -> NewThread("post")
                              [] t = 2 -> NewThread("periodic")
                              [] t = 3 -> NewThread("notification")
                              [] OTHER -> thr[t]]
  /\ cur' = [post |-> 1, periodic |-> 2, notification |-> 3]
  /\ nthr' = 3
  /\ mainPc' = "mon_sleep"
  /\ UNCHANGED << textVars, running, access_token, session, last_checked_notification,
                  envVars, hpc, exitCode, signals, cleanups, crashes,
                  restarts, histVars >>

\* A main thread that goes on with the monitor loop while a handler frame
\* is on top of it.
MonitorRuns_UnderHandler == TRUE

\* The main thread executes the monitor loop only while no signal_handler
\* frame runs on top of it.
MonitorRuns == hpc = "none"

\* time.sleep(30) of the monitor loop returns.
MonitorWake ==
  /\ mainPc = "mon_sleep"
  /\ MonitorRuns
  /\ mainPc' = "mon_post"
  /\ UNCHANGED << textVars, running, access_token, session, last_checked_notification,
                  envVars, thr, nthr, cur, hpc, exitCode, signals, cleanups,
                  crashes, restarts, histVars >>

AfterMon(r) ==
  CASE r = "post" -> "mon_periodic"
    [] r = "periodic" -> "mon_notification"
    [] r = "notification" -> "mon_sleep"

\* Mutants of NeedsRestart: the liveness test dropped; no thread replaced.
NeedsRestart_Unchecked(r) == TRUE

NeedsRestart_Never(r) == FALSE

\* A monitor loop that tests post_thread in all three statements.
NeedsRestart_PostOnly(r) == ~is_alive(cur["post"])

\* The condition of the three `if not x_thread.is_alive():` statements.
NeedsRestart(r) == ~is_alive(cur[r])

\* One `if not x_thread.is_alive():` statement of the monitor loop: a new
\* Thread replaces the dead one and is started.
MonitorCheck(r) ==
  /\ mainPc = "mon_" \o r
  /\ MonitorRuns
  /\ IF NeedsRestart(r) /\ nthr < MaxThreads
     THEN /\ thr' = [thr EXCEPT ![nthr + 1] = NewThread(r)]
          /\ nthr' = nthr + 1
          /\ cur' = [cur EXCEPT ![r] = nthr + 1]
          /\ restarts' = [restarts EXCEPT ![r] = @ + 1]
     ELSE UNCHANGED << thr, nthr, cur, restarts >>
  /\ mainPc' = AfterMon(r)
  /\ UNCHANGED << textVars, running, access_token, session, last_checked_notification,
                  envVars, hpc, exitCode, signals, cleanups, crashes, histVars >>


\* ---- shutdown: signal_handler and the finally block of start() ----------

\* Mutant of JoinReturns: join() called without a timeout.
JoinReturns_NoTimeout(t, timedOut) == ~is_alive(t)

\* Thread.join(timeout=5) returns when the thread has ended or when the
\* timeout has elapsed.
JoinReturns(t, timedOut) == timedOut \/ ~is_alive(t)

\* SIGINT or SIGTERM arrives while the handler is installed.  Python runs
\* signal_handler on the main thread, on top of whatever the main thread is
\* doing (the monitor loop, the finally block, or an earlier handler frame
\* still in join): it logs, sets running = False and goes on to the joins.
Signal ==
  /\ mainPc \in MonPcs \cup FinPcs
  /\ signals < MaxSignals
  /\ signals' = signals + 1
  /\ cleanups' = cleanups + 1
  /\ running' = FALSE
  /\ hpc' = "h_post"
  /\ UNCHANGED << textVars, access_token, session, last_checked_notification, envVars,
                  thr, nthr, cur, mainPc, exitCode, crashes, restarts, histVars >>

AfterHandlerJoin(r) ==
  CASE r = "post" -> "h_periodic"
    [] r = "periodic" -> "h_notification"
    [] r = "notification" -> "h_exit"

\* x_thread.join(timeout=5) in signal_handler.
HandlerJoin(r) ==
  /\ hpc = "h_" \o r
  /\ \E timedOut \in BOOLEAN : JoinReturns(cur[r], timedOut)
  /\ hpc' = AfterHandlerJoin(r)
  /\ UNCHANGED << textVars, running, access_token, session, last_checked_notification,
                  envVars, thr, nthr, cur, mainPc, exitCode, signals, cleanups,
                  crashes, restarts, histVars >>

\* "Cleanup complete" and sys.exit(0): SystemExit unwinds every handler
\* frame.  Raised over the monitor loop it is not an Exception, so only the
\* finally block of start() runs (log, running = False, the joins); raised
\* over the finally block it leaves start() and main() ends the process.
HandlerExit ==
  /\ hpc = "h_exit"
  /\ hpc' = "none"
  /\ exitCode' = 0
  /\ IF mainPc \in MonPcs
     THEN /\ mainPc' = "fin_post"
          /\ cleanups' = cleanups + 1
     ELSE /\ mainPc' = "exited"
          /\ UNCHANGED cleanups
  /\ running' = FALSE
  /\ UNCHANGED << textVars, access_token, session, last_checked_notification, envVars,
                  thr, nthr, cur, signals, crashes, restarts, histVars >>

AfterFinallyJoin(r) ==
  CASE r = "post" -> "fin_periodic"
    [] r = "periodic" -> "fin_notification"
    [] r = "notification" -> "exited"

\* `if x_thread.is_alive(): x_thread.join(timeout=5)` in the finally block;
\* after the third one "Bot shutdown complete", main()'s finally, and the
\* process ends with the status of the pending SystemExit.
FinallyJoin(r) ==
  /\ mainPc = "fin_" \o r
  /\ hpc = "none"
  /\ is_alive(cur[r]) => \E timedOut \in BOOLEAN : JoinReturns(cur[r], timedOut)
  /\ mainPc' = AfterFinallyJoin(r)
  /\ UNCHANGED << textVars, running, access_token, session, last_checked_notification,
                  envVars, thr, nthr, cur, hpc, exitCode, signals, cleanups,
                  crashes, restarts, histVars >>

\* ---- environment --------------------------------------------------------

\* The clock advances.
Tick ==
  /\ ProcessUp
  /\ now < MaxTime
  /\ now' = now + 1
  /\ UNCHANGED << textVars, running, access_token, session, last_checked_notification,
                  indexedAt, thr, nthr, cur, mainVars, crashes, restarts, histVars >>

\* The service indexes a comment: it is in every later listNotifications.
IndexNotification(n) ==
  /\ ProcessUp
  /\ indexedAt[n] = NotIndexed
  /\ indexedAt' = [indexedAt EXCEPT ![n] = now]
  /\ UNCHANGED << textVars, running, access_token, session, last_checked_notification,
                  now, thr, nthr, cur, mainVars, crashes, restarts, histVars >>

\* The access token created by createSession reaches its expiry.
ExpireSession ==
  /\ ProcessUp
  /\ session = "valid"
  /\ session' = "expired"
  /\ UNCHANGED << textVars, running, access_token, last_checked_notification, envVars,
                  thr, nthr, cur, mainVars, crashes, restarts, histVars >>

\* ---- generated text: generate_post ------------------------------------
\* A text is a sequence of characters.  Literals of the code are written
\* out; text that comes from outside (the model's answer, a source name) is
\* a run of one character, because the code only slices and concatenates it.

BodyLimit == 250
PostLimit == 280
FallbackLeadLen == 53

Run(n, c) == [i \in 1..n |-> c]

\* s[:n]
Take(s, n) == SubSeq(s, 1, IF Len(s) < n THEN Len(s) ELSE n)

Contains(hay, needle) ==
  \E k \in 0..(Len(hay) - Len(needle)) :
    SubSeq(hay, k + 1, k + Len(needle)) = needle

ViaOpen == << " ", "(", "v", "i", "a", " " >>
ViaClose == << ")" >>
UnknownSource ==
  << "U", "n", "k", "n", "o", "w", "n", " ", "S", "o", "u", "r", "c", "e" >>
\* "Interesting AI development... what are your thoughts?"
FallbackLead == Run(FallbackLeadLen, "t")

\* The lengths at which the slices of generate_post start to cut.
NormalFit == PostLimit - BodyLimit - Len(ViaOpen) - Len(ViaClose)
FallbackFit == PostLimit - FallbackLeadLen - Len(ViaOpen) - Len(ViaClose)

BodyLens ==
  {0, 1, BodyLimit - 1, BodyLimit, BodyLimit + 1, BodyLimit + MaxOver}
SourceLens ==
  {0, 1, NormalFit, NormalFit + 1, FallbackFit, FallbackFit + 1,
   FallbackFit + MaxOver}

\* An article of NewsAPI: with or without a source name.
Articles ==
  {[hasSource |-> FALSE, name |-> << >>]}
    \cup {[hasSource |-> TRUE, name |-> Run(n, "s")] : n \in SourceLens}

\* model.generate_content: it answers with a text or raises.
Generations ==
  {[ok |-> FALSE, text |-> << >>]}
    \cup {[ok |-> TRUE, text |-> Run(n, "b")] : n \in BodyLens}

\* A generate_post whose except branch gives up the post.
generate_post_Silent(article) == << >>
\* The except branch of generate_post: a static sentence with the source.
PostFallback(article) ==
  FallbackLead \o ViaOpen
    \o (IF article.hasSource THEN article.name ELSE UnknownSource)
    \o ViaClose

generate_post(article, gen) ==
  IF gen.ok
    THEN LET post == Take(gen.text, BodyLimit)
             source == IF article.hasSource THEN article.name ELSE << >>
         IN Take(IF source # << >>
                   THEN post \o ViaOpen \o source \o ViaClose
                   ELSE post,
                 PostLimit)
    ELSE PostFallback(article)

PostCalls ==
  {[fn |-> "generate_post", article |-> a, gen |-> g] :
     a \in Articles, g \in Generations}

Returned(text) == [raised |-> FALSE, text |-> text, returned |-> TRUE]

CallGeneratePost ==
  /\ call.fn = "generate_post"
  /\ ~result.returned
  /\ result' = Returned(generate_post(call.article, call.gen))
  /\ UNCHANGED << running, access_token, session, last_checked_notification,
                  thr, nthr, cur, crashes, restarts, envVars, mainVars,
                  histVars, call >>

\* ---- generated text: generate_reply -----------------------------------
ReplyFallbackLen == 91
NoNewsLen == 82
MoreNoteLen == 75
SnippetLimit == 100

\* "Thanks for your thoughts on AI! ..." / "I couldn't find any recent
\* news ..." / "\n\nI found other recent articles ..."
ReplyFallback == Run(ReplyFallbackLen, "f")
NoNewsReply == Run(NoNewsLen, "n")
MoreNote == Run(MoreNoteLen, "m")
NewsMark == << "n", "e", "w", "s", " " >>
Gap == << "\n", "\n" >>
Dots == << ".", ".", "." >>
ViaLabel == << "(", "v", "i", "a", " " >>

None == << "None" >>
Truthy(x) == x # None /\ x # << >>

Value(text) == [raised |-> FALSE, text |-> text]
Raise == [raised |-> TRUE, text |-> << >>]

RECURSIVE LStrip(_)
LStrip(s) == IF s # << >> /\ Head(s) = " " THEN LStrip(Tail(s)) ELSE s
RECURSIVE RStrip(_)
RStrip(s) ==
  IF s # << >> /\ s[Len(s)] = " " THEN RStrip(SubSeq(s, 1, Len(s) - 1)) ELSE s
\* str.strip()
Strip(s) == RStrip(LStrip(s))

\* extract_news_request: the topic the model names when the message holds
\* one of the news keywords; None without a keyword or when the call raises.
extract_news_request(keyword, gen) ==
  IF keyword
    THEN IF gen.ok THEN Strip(gen.text) ELSE None
    ELSE None

\* format_news_response; main_article['title'] raises KeyError on an
\* article without a title.
format_news_response(articles) ==
  IF articles = << >> THEN Value(NoNewsReply)
  ELSE LET a == articles[1]
           head == NewsMark \o a.title \o Gap
           body == IF a.description # << >>
                     THEN head \o Take(a.description, SnippetLimit) \o Dots \o Gap
                     ELSE head
           via == body \o ViaLabel
                    \o (IF a.hasSource THEN a.name ELSE UnknownSource) \o ViaClose
           all == IF Len(articles) > 1 THEN via \o MoreNote ELSE via
       IN  IF a.hasTitle THEN Value(Take(all, PostLimit)) ELSE Raise

\* The try body of generate_reply.
ReplyBody(c) ==
  IF ~c.thread THEN Value(<< >>)
  ELSE LET news_query == extract_news_request(c.keyword, c.extract)
       IN  IF Truthy(news_query)
             THEN format_news_response(c.articles)
             ELSE IF c.conv.ok THEN Value(Take(c.conv.text, BodyLimit)) ELSE Raise

\* A generate_reply whose except branch returns no text.
generate_reply_Silent(c) ==
  LET r == ReplyBody(c) IN IF r.raised THEN Value(<< >>) ELSE r

generate_reply(c) ==
  LET r == ReplyBody(c) IN IF r.raised THEN Value(ReplyFallback) ELSE r

\* Articles of fetch_specific_news: a short one, one whose fields exceed
\* the slices, one without a title.
ShortArticle ==
  [hasTitle |-> TRUE, title |-> Run(1, "h"), description |-> << >>,
   hasSource |-> FALSE, name |-> << >>]
LongArticle ==
  [hasTitle |-> TRUE, title |-> Run(BodyLimit, "h"),
   description |-> Run(SnippetLimit + MaxOver, "d"),
   hasSource |-> TRUE, name |-> Run(1, "s")]
UntitledArticle ==
  [hasTitle |-> FALSE, title |-> << >>, description |-> << >>,
   hasSource |-> TRUE, name |-> Run(1, "s")]
NewsLists ==
  {<< >>, << ShortArticle >>, << LongArticle, ShortArticle >>,
   << UntitledArticle >>}

\* Answers of the model to the extraction prompt: an error, blank text, a
\* topic.
Extractions ==
  {[ok |-> FALSE, text |-> << >>], [ok |-> TRUE, text |-> << " " >>],
   [ok |-> TRUE, text |-> << " ", "q", " " >>]}

ReplyCalls ==
  {[fn |-> "generate_reply", thread |-> th, keyword |-> k, extract |-> e,
    articles |-> a, conv |-> g] :
     th \in BOOLEAN, k \in BOOLEAN, e \in Extractions, a \in NewsLists,
     g \in Generations}

CallGenerateReply ==
  /\ call.fn = "generate_reply"
  /\ ~result.returned
  /\ LET r == generate_reply(call)
     IN  result' = [raised |-> r.raised, text |-> r.text, returned |-> TRUE]
  /\ UNCHANGED << running, access_token, session, last_checked_notification,
                  thr, nthr, cur, crashes, restarts, envVars, mainVars,
                  histVars, call >>

\* ---- specifications -----------------------------------------------------

\* One statement of a worker thread.
ThreadStep(t) ==
  \/ Loop(t)
  \/ FetchNews(t)
  \/ GetNotifications(t)
  \/ NextNotification(t)
  \/ GenerateContent(t)
  \/ CreatePost(t)
  \/ RateLimit(t)
  \/ Sleep(t)

MonitorStep ==
  \/ MonitorWake
  \/ \E r \in Roles : MonitorCheck(r)

ShutdownStep ==
  \/ \E r \in Roles : HandlerJoin(r)
  \/ HandlerExit
  \/ \E r \in Roles : FinallyJoin(r)

\* The whole program in its environment.
Next ==
  \/ Authenticate
  \/ StartWorkers
  \/ \E t \in Tids : ThreadStep(t) \/ GetPostThread(t) \/ Crash(t)
  \/ MonitorStep
  \/ ShutdownStep
  \/ Signal
  \/ Tick
  \/ \E n \in NotifIds : IndexNotification(n)
  \/ ExpireSession

Spec == Init /\ [][Next]_vars

\* Supervision and shutdown: the program while the service indexes no
\* comment for the bot and the session does not expire (every poll returns
\* the empty list, so the reply path of handle_notifications is not entered).
NextSupervise ==
  \/ Authenticate
  \/ StartWorkers
  \/ \E t \in Tids : ThreadStep(t) \/ Crash(t)
  \/ MonitorStep
  \/ ShutdownStep
  \/ Signal

SpecSupervise == Init /\ [][NextSupervise]_vars

\* The main thread is scheduled: a handler or finally statement that can
\* run does run.  Nothing is assumed of the workers, which may sleep or
\* stay blocked in a call.
LiveSupervise == SpecSupervise /\ WF_vars(ShutdownStep)

\* The notification worker and the service: the runs in which the two
\* publisher threads, once started, are not scheduled (they share no
\* variable that handle_notifications reads), no signal arrives and no
\* thread is lost.
NextNotify ==
  \/ Authenticate
  \/ StartWorkers
  \/ \E t \in Tids :
       \/ thr[t].role = "notification" /\ Loop(t)
       \/ thr[t].role = "notification" /\ GetNotifications(t)
       \/ thr[t].role = "notification" /\ NextNotification(t)
       \/ thr[t].role = "notification" /\ GetPostThread(t)
       \/ thr[t].role = "notification" /\ GenerateContent(t)
       \/ thr[t].role = "notification" /\ CreatePost(t)
       \/ thr[t].role = "notification" /\ RateLimit(t)
       \/ thr[t].role = "notification" /\ Sleep(t)
  \/ Tick
  \/ \E n \in ThreadComments : IndexNotification(n)

SpecNotify == Init /\ [][NextNotify]_vars

\* The notification worker under supervision: SpecNotify with the monitor
\* loop, and notification threads that may be lost.
NextRestart ==
  \/ NextNotify
  \/ \E t \in Tids : thr[t].role = "notification" /\ Crash(t)
  \/ MonitorStep

SpecRestart == Init /\ [][NextRestart]_vars

\* The notification worker and what it must not answer: SpecNotify with a
\* service that indexes the bot's own reply, a like and a mention, each with
\* a well-formed indexedAt.
NextFilter ==
  \/ Authenticate
  \/ StartWorkers
  \/ \E t \in Tids :
       \/ thr[t].role = "notification" /\ Loop(t)
       \/ thr[t].role = "notification" /\ GetNotifications(t)
       \/ thr[t].role = "notification" /\ NextNotification(t)
       \/ thr[t].role = "notification" /\ GetPostThread(t)
       \/ thr[t].role = "notification" /\ GenerateContent(t)
       \/ thr[t].role = "notification" /\ CreatePost(t)
       \/ thr[t].role = "notification" /\ RateLimit(t)
       \/ thr[t].role = "notification" /\ Sleep(t)
  \/ Tick
  \/ \E n \in FilterCases : IndexNotification(n)

SpecFilter == Init /\ [][NextFilter]_vars

\* The workers within one reading of the clock: the runs from start() up
\* to each worker's first time.sleep, in which the clock does not advance,
\* every poll returns the empty list and no signal arrives; the session may
\* expire.  Every call of such a run is issued at the same instant.
NextRate ==
  \/ Authenticate
  \/ StartWorkers
  \/ \E t \in Tids :
       \/ Loop(t)
       \/ FetchNews(t)
       \/ GetNotifications(t)
       \/ NextNotification(t)
       \/ GenerateContent(t)
       \/ CreatePost(t)
  \/ ExpireSession

SpecRate == Init /\ [][NextRate]_vars

\* Shutdown with sleeping workers: the runs of SpecSupervise without lost
\* threads in which, once a signal has arrived, a worker is scheduled only
\* to return from time.sleep and to test `while self.running`.  A worker
\* found asleep after the signal has been asleep since before it.
NextShutdown ==
  \/ Authenticate
  \/ StartWorkers
  \/ \E t \in Tids : signals = 0 /\ ThreadStep(t)
  \/ \E t \in Tids : signals > 0 /\ (Sleep(t) \/ Loop(t))
  \/ MonitorStep
  \/ ShutdownStep
  \/ Signal

SpecShutdown == Init /\ [][NextShutdown]_vars

\* The comments the bot is to answer: a reply or a mention by another
\* account with a well-formed indexedAt.
Eligible ==
  {n \in NotifIds : /\ Notifs[n].author # MyDid
                    /\ Notifs[n].reason \in {"reply", "mention"}
                    /\ ~Notifs[n].badTime}

\* The notification worker with services that respond: createSession,
\* listNotifications and getPostThread succeed, and the service indexes
\* eligible comments only.
AnswerStep ==
  \/ Authenticate /\ mainPc' = "spawn"
  \/ StartWorkers
  \/ \E t \in Tids :
       \/ thr[t].role = "notification" /\ Loop(t)
       \/ thr[t].role = "notification" /\ GetNotifications(t)
            /\ thr'[t].list = ServiceList
       \/ thr[t].role = "notification" /\ NextNotification(t)
       \/ thr[t].role = "notification" /\ GetPostThread(t) /\ thr'[t].pc = "gen"
       \/ thr[t].role = "notification" /\ GenerateContent(t)
       \/ thr[t].role = "notification" /\ CreatePost(t)
       \/ thr[t].role = "notification" /\ RateLimit(t)
       \/ thr[t].role = "notification" /\ Sleep(t)

NextAnswer ==
  \/ AnswerStep
  \/ Tick
  \/ \E n \in Eligible : IndexNotification(n)

\* The main thread and the notification worker are scheduled; nothing is
\* assumed of the clock and of the service's indexing.
LiveAnswer == Init /\ [][NextAnswer]_vars /\ WF_vars(AnswerStep)

\* The workers and the session: the runs in which the access token may
\* expire, while the service indexes no comment, no signal arrives and no
\* thread is lost.
NextSession ==
  \/ Authenticate
  \/ StartWorkers
  \/ \E t \in Tids : ThreadStep(t)
  \/ ExpireSession

SpecSession == Init /\ [][NextSession]_vars


\* The text functions on their own: every call of generate_post and of
\* generate_reply over the bounded inputs.
InitText ==
  /\ InitBot
  /\ call \in PostCalls \cup ReplyCalls
  /\ result = NoResult

NextText ==
  \/ CallGeneratePost
  \/ CallGenerateReply

SpecText == InitText /\ [][NextText]_vars

\* ---- claims -------------------------------------------------------------

\* C1: over any sequence of notification-poll cycles, aborted ones included,
\* at most one reply post is submitted for each comment.
C1_AtMostOneReplyPerComment == \A n \in NotifIds : replied[n] <= 1

\* A notification thread is inside handle_notifications.
InPollCycle(t) ==
  /\ thr[t].role = "notification"
  /\ thr[t].pc \in {"get_notifs", "next", "thread", "gen", "create", "rate"}

\* C2: no two notification-poll cycles ever execute concurrently (so no two
\* cycles can both observe a comment before either has recorded it).
C2_NoOverlappingPollCycles ==
  Cardinality({t \in Tids : InPollCycle(t)}) <= 1

\* A replacement notification thread is about to reply to a comment that
\* the cycle of an earlier, ended notification thread already replied to.
C2_Witness ==
  \E t \in Tids, u \in Tids :
    /\ t # u
    /\ InPollCycle(t)
    /\ thr[t].pc = "create"
    /\ thr[u].role = "notification"
    /\ thr[u].pc = "dead"
    /\ \E x \in refs : x.to = thr[t].list[thr[t].i]

\* The monitor loop has just executed the `if not x_thread.is_alive():`
\* statement of role r.
Checked(r) == mainPc = "mon_" \o r /\ mainPc' = AfterMon(r)

\* C3 (as amended): a worker thread that ends while the bot is running is
\* replaced at the monitor's next check of that worker, unless a signal
\* begins shutdown first; exactly one replacement is started per ended
\* thread, never two, and at most one ended thread per worker awaits its
\* replacement.
C3_RestartedOncePerCrash ==
  [][\A r \in Roles :
       /\ Checked(r) => /\ restarts'[r] = crashes[r]
                        /\ thr'[cur'[r]].pc \notin {"none", "dead"}
       /\ restarts'[r] - restarts[r] \in {0, 1}
       /\ crashes'[r] - restarts'[r] \in {0, 1}]_vars

\* A worker thread ended, and the monitor has started its replacement.
C3_Witness ==
  \E r \in Roles : crashes[r] = 1 /\ restarts[r] = 1 /\ is_alive(cur[r])

\* C3 (as stated): every worker thread that ends while the bot is running
\* is replaced, its restart counted exactly once - so when the process ends
\* every ended thread has had its one restart.
C3_EveryCrashRestarted ==
  mainPc = "exited" => \A r \in Roles : restarts[r] = crashes[r]

\* C4: while running is true no failure raised in an iteration ends a
\* worker thread.
C4_NoFailureEndsWorker ==
  [][\A t \in Tids : (is_alive(t) /\ running') => thr'[t].pc # "dead"]_vars

\* The reference to a post: its uri and content id.
StrongRef(uri) == [uri |-> uri, cid |-> Cid(uri)]

\* C5: the reply to a first-level reply to the bot's post R carries
\* root = (R, C) and parent = (R, C).
C5_FirstLevelReplyRef ==
  \A x \in refs :
    Notifs[x.to].reply_parent = Notifs[x.to].reply_root =>
      /\ x.ref.root = StrongRef(Notifs[x.to].reply_root)
      /\ x.ref.parent = StrongRef(Notifs[x.to].reply_root)

\* C6: the reply to a second-level reply in the thread of R carries
\* root = (R, C) and as parent the reply being answered; the two differ.
C6_SecondLevelReplyRef ==
  \A x \in refs :
    Notifs[x.to].reply_parent # Notifs[x.to].reply_root =>
      /\ x.ref.root = StrongRef(Notifs[x.to].reply_root)
      /\ x.ref.parent = StrongRef(Notifs[x.to].uri)
      /\ x.ref.root # x.ref.parent

\* C7: whatever signals arrive, the cleanup sequence (running = False, join
\* the workers, log completion) is begun at most once per process run.
C7_CleanupAtMostOnce == cleanups <= 1

\* C8: once shutdown has begun (running is False) no worker initiates an
\* external call; calls in flight may complete.
C8_NoNewCallAfterShutdown ==
  [][~running =>
       \A t \in Tids : thr'[t].pc \in CallPcs => thr'[t].pc = thr[t].pc]_vars

\* C9: after a signal the process always terminates, whatever the workers
\* do: no join waits beyond its timeout.
C9_ShutdownCompletes == (signals > 0) ~> (mainPc = "exited")

\* The process has ended after a signal while a worker thread had not.
C9_Witness ==
  /\ signals > 0
  /\ mainPc = "exited"
  /\ \E r \in Roles : is_alive(cur[r])

\* C10: a submission that fails because the credential has expired is
\* retried after exactly one re-authentication.
C10_ReauthOnExpiredCredential ==
  lastPost.expired => lastPost.reauth = 1

\* C11: the text generate_post returns is never longer than the limit of a
\* post (PostLimit characters), whatever the length of the source name.
C11_PostWithinLimit ==
  (call.fn = "generate_post" /\ result.returned)
    => Len(result.text) <= PostLimit

\* C12: when the text generation fails, generate_post raises nothing and
\* returns a non-empty text that names the article's source ('Unknown
\* Source' for an article without one), so the cycle has a post to submit.
C12_FallbackNamesSource ==
  (call.fn = "generate_post" /\ ~call.gen.ok /\ result.returned)
    => /\ ~result.raised
       /\ result.text # << >>
       /\ Contains(result.text,
                   IF call.article.hasSource THEN call.article.name
                                             ELSE UnknownSource)

C12_Witness ==
  /\ call.fn = "generate_post"
  /\ ~call.gen.ok
  /\ call.article.hasSource
  /\ Len(call.article.name) = NormalFit
  /\ result.returned
  /\ Len(result.text) > FallbackLeadLen

\* The comment a notification thread is answering (between the acceptance
\* by should_reply_to_notification and the end of its turn of the loop).
Answering(t) ==
  IF thr[t].pc \in {"thread", "gen", "create", "rate"} /\ thr[t].role = "notification"
    THEN {thr[t].list[thr[t].i]} ELSE {}

\* The notifications of the current poll that the loop has passed over.
Passed(t) ==
  IF thr[t].role = "notification" /\ thr[t].pc = "next"
    THEN {thr[t].list[j] : j \in 1..(thr[t].i - 1)} ELSE {}

\* C13: no reply is submitted to a notification written by the bot's own
\* account, and should_reply_to_notification rejects every such
\* notification whatever the checkpoint and its index time.
C13_NeverAnswersItself ==
  /\ \A x \in refs : Notifs[x.to].author # MyDid
  /\ \A t \in Tids : \A n \in Answering(t) : Notifs[n].author # MyDid
  /\ \A n \in NotifIds :
       Notifs[n].author = MyDid => should_reply_to_notification(n) = "no"

C13_Witness ==
  \E t \in Tids :
    /\ "cself" \in Passed(t)
    /\ indexedAt["cself"] > last_checked_notification

\* C14: no reply is submitted to a notification whose reason is not
\* "reply" or "mention".
C14_OnlyRepliesAndMentions ==
  /\ \A x \in refs : Notifs[x.to].reason \in {"reply", "mention"}
  /\ \A t \in Tids : \A n \in Answering(t) :
       Notifs[n].reason \in {"reply", "mention"}
  /\ \A n \in NotifIds :
       Notifs[n].reason \notin {"reply", "mention"}
         => should_reply_to_notification(n) = "no"

C14_Witness ==
  \E t \in Tids :
    /\ "clike" \in Passed(t)
    /\ indexedAt["clike"] > last_checked_notification

\* C15: a notification is accepted only when its index time is strictly
\* after the checkpoint; the checkpoint never moves back, and the poll that
\* completes leaves it at or after the index time of every notification of
\* its list, so none of them is accepted by a later poll.
C15_OnlyAfterCheckpoint ==
  [][ /\ \A t \in Tids :
           (thr[t].pc = "next" /\ thr'[t].pc = "thread")
             => indexedAt[thr[t].list[thr[t].i]] > last_checked_notification
      /\ last_checked_notification' >= last_checked_notification
      /\ \A t \in Tids :
           (thr[t].pc = "next" /\ thr[t].i > Len(thr[t].list) /\ thr'[t].pc = "sleep")
             => \A j \in 1..Len(thr[t].list) :
                  indexedAt'[thr[t].list[j]] <= last_checked_notification' ]_vars

C15_Witness ==
  \E t \in Tids :
    /\ "cmention" \in Passed(t)
    /\ replied["cmention"] = 1
    /\ indexedAt["cmention"] = last_checked_notification

\* C19: the reply to a mention outside any thread names the mentioned post
\* itself, uri and cid, as root and as parent.
C19_MentionReplyRefersToItself ==
  \A x \in refs :
    (Notifs[x.to].reason = "mention" /\ Notifs[x.to].reply_root = NoReply)
      => /\ x.ref.root = StrongRef(Notifs[x.to].uri)
         /\ x.ref.parent = StrongRef(Notifs[x.to].uri)

C19_Witness ==
  /\ replied["cmention"] = 1
  /\ \E x \in refs : x.to = "cmention"

\* C16: when the authentication at the top of start() fails, the process
\* exits with status 1 and no worker thread was ever created and no post
\* was ever submitted.
C16_AuthFailureIsFatal ==
  (mainPc # "auth" /\ access_token = "none")
    => /\ mainPc = "exited"
       /\ exitCode = 1
       /\ ~running
       /\ nthr = 0
       /\ \A t \in Tids : thr[t] = NoThread
       /\ \A r \in Roles : cur[r] = 0
       /\ refs = {}
       /\ lastPost = [expired |-> FALSE, reauth |-> 0]

C16_Witness ==
  /\ mainPc = "exited"
  /\ access_token = "none"
  /\ exitCode = 1
  /\ cleanups = 1

\* The threads whose createRecord request is in flight.
Creating == {t \in Tids : thr[t].pc = "create"}

\* C17: two post-creation calls of the workers are at least the rate-limit
\* delay apart.  Under SpecRate the clock stands still, so two requests in
\* flight together were issued no time apart: there is at most one.
C17_PostCreationsSpaced == Cardinality(Creating) <= 1

\* C18: a worker asleep between two iterations when shutdown is signalled
\* stops sleeping and terminates: when the process exits after a signal, no
\* worker is still inside time.sleep.
C18_SleepersTerminate ==
  (mainPc = "exited" /\ signals > 0)
    => \A t \in Tids : thr[t].pc # "sleep"

\* generate_reply called the model and the call raised: the extraction
\* call, or the conversational call (made when no topic was extracted).
ExtractionFailed(c) == c.thread /\ c.keyword /\ ~c.extract.ok
ConversationFailed(c) ==
  /\ c.thread
  /\ ~Truthy(extract_news_request(c.keyword, c.extract))
  /\ ~c.conv.ok

\* C20 as stated: every failure of the generation service in generate_reply,
\* in the topic extraction or in the conversational call, yields the static
\* fallback reply.
C20_AnyFailureYieldsFallback ==
  (call.fn = "generate_reply" /\ result.returned
     /\ (ExtractionFailed(call) \/ ConversationFailed(call)))
    => (~result.raised /\ result.text = ReplyFallback)

\* C20 amended: generate_reply raises nothing; a failed topic extraction is
\* taken as "no news request" (the reply is what the same message without a
\* keyword gets); a failed conversational call yields the static non-empty
\* fallback; and the reply is empty only without a thread or when the model
\* answered the conversational prompt with empty text.
C20_GenerationFailureHandled ==
  (call.fn = "generate_reply" /\ result.returned)
    => /\ ~result.raised
       /\ ExtractionFailed(call)
            => result.text = generate_reply([call EXCEPT !.keyword = FALSE]).text
       /\ ConversationFailed(call)
            => (result.text = ReplyFallback /\ result.text # << >>)
       /\ result.text = << >>
            => \/ ~call.thread
               \/ call.conv.ok /\ Take(call.conv.text, BodyLimit) = << >>

C20_Witness ==
  /\ call.fn = "generate_reply"
  /\ result.returned
  /\ ExtractionFailed(call)
  /\ ConversationFailed(call)
  /\ result.text = ReplyFallback

\* The live threads running the worker loop of role r.
LiveWorkers(r) == {t \in Tids : thr[t].role = r /\ is_alive(t)}

\* C21: for each role at most one live thread runs its worker loop, and the
\* monitor loop starts a thread for a role only when the role's current
\* thread is not alive.
C21_OneLiveThreadPerRole ==
  [][ /\ \A r \in Roles : Cardinality(LiveWorkers(r)') <= 1
      /\ \A r \in Roles :
           (mainPc \in MonPcs /\ cur'[r] # cur[r]) => ~is_alive(cur[r]) ]_vars

C21_Witness ==
  \E r \in {"post", "periodic"} :
    /\ restarts[r] = 1
    /\ is_alive(cur[r])
    /\ thr[cur[r]].pc \in CallPcs
    /\ \E t \in Tids : t # cur[r] /\ thr[t].role = r /\ thr[t].pc = "dead"

\* C22: once running is false no worker thread is started: no Thread object
\* is created, no role gets a new current thread and no "died, restarting"
\* branch is taken.
C22_NoStartAfterShutdown ==
  [][ ~running => /\ nthr' = nthr
                  /\ cur' = cur
                  /\ restarts' = restarts
                  /\ \A t \in Tids : thr[t] = NoThread => thr'[t] = NoThread ]_vars

\* A worker has left its loop because running became false, the process
\* has ended, and the worker was not replaced.
C22_Witness ==
  /\ mainPc = "exited"
  /\ signals > 0
  /\ \E r \in Roles :
       /\ thr[cur[r]].pc = "dead"
       /\ crashes[r] = 0
       /\ restarts[r] = 0

\* The for loop of handle_notifications in thread t has run through its
\* list: the next statement is the assignment of the checkpoint.
LoopDone(t) ==
  thr[t].role = "notification" /\ thr[t].pc = "next" /\ thr[t].i > Len(thr[t].list)

\* C23: last_checked_notification is assigned exactly by the statement after
\* the for loop of handle_notifications, which sets it to the current time;
\* a cycle that an exception aborts, or a thread that ends, leaves it
\* unchanged; it never moves backwards.
C23_CheckpointOnlyOnCompletion ==
  [][ /\ last_checked_notification' >= last_checked_notification
      /\ \A t \in Tids :
           (LoopDone(t) /\ thr'[t].pc = "sleep") => last_checked_notification' = now
      /\ last_checked_notification' # last_checked_notification
           => \E t \in Tids : LoopDone(t) /\ thr'[t].pc = "sleep"
      /\ \A t \in Tids :
           (thr[t].role = "notification" /\ ~LoopDone(t) /\ thr'[t] # thr[t])
             => last_checked_notification' = last_checked_notification ]_vars

\* The checkpoint was advanced by a cycle whose reply submission failed, and
\* the worker polls on.
C23_Witness ==
  /\ last_checked_notification > 0
  /\ \E x \in refs : replied[x.to] = 0
  /\ \E t \in Tids : thr[t].role = "notification" /\ thr[t].pc = "get_notifs"

\* A reply to comment n has been attempted: create_post sent a createRecord
\* request with n as reply_to.
Attempted(n) == \E x \in refs : x.to = n

\* C24: every eligible comment indexed after the bot started (after the
\* initial checkpoint) eventually has a reply attempted, when the worker is
\* scheduled and the services respond.
C24_NoEligibleNotificationLost ==
  \A n \in Eligible : (indexedAt[n] > 0) ~> Attempted(n)

====
